---- MODULE Spec2Model ----
(***************************************************************************)
(* prepare_counts_by_country_decade_medium.py: a batch run of main() that  *)
(* reads a master objects table and an optional country->region table,     *)
(* derives region, country, decade and medium group for every record,      *)
(* counts the records by that 4-tuple and writes the counts.               *)
(*                                                                         *)
(* Text is a sequence of one-character strings, so that lower(), strip()   *)
(* and the substring test `k in combo` are computed character by character.*)
(* A table cell is NaN (missing), a number, or a text, as pandas reads it. *)
(***************************************************************************)
EXTENDS Integers, Sequences, FiniteSets, TLC

VARIABLES
    pc,                 \* position of main(): the next section to run
    master_path,        \* result of the first file dialog ("" when declined)
    master_file,        \* text fields of the file at master_path once read, or None
    use_flows,          \* bool(flows_path)
    master_df,          \* master table as read, or None
    flows_df,           \* region-lookup table as read, or None
    country_to_region,  \* dict country -> region
    df,                 \* working frame: rows kept so far, each with its index label
    grouped,            \* aggregate rows, or None
    out_path,           \* result of the save dialog ("" when declined)
    out_file,           \* rows written to out_path, or None
    writes,             \* number of calls of grouped.to_csv
    notifications,      \* message boxes shown so far, in order
    fn_args,            \* arguments of a direct call of a pure function, or None
    fn_result           \* its result, or None

vars == << pc, master_path, master_file, use_flows, master_df, flows_df,
           country_to_region, df, grouped, out_path, out_file, writes, notifications,
           fn_args, fn_result >>

main_vars == << pc, master_path, master_file, use_flows, master_df, flows_df,
                country_to_region, df, grouped, out_path, out_file, writes,
                notifications >>

-----------------------------------------------------------------------------
(* Bounds of the model *)

\* most rows of a master table
MaxRows == 2

-----------------------------------------------------------------------------
(* Configuration constants of the script *)

MASTER_COUNTRY_COL == "origin_country_std"
MASTER_START_YEAR_COL == "creation_start_year_std"
MASTER_END_YEAR_COL == "creation_end_year_std"
MASTER_CLASS_COL == "classification_std"
MASTER_MEDIUM_COL == "medium_std"

FLOWS_COUNTRY_COL == "origin_country"
FLOWS_REGION_COL == "region"

MIN_DECADE == 1400
MAX_DECADE == 2020

-----------------------------------------------------------------------------
(* Text: str.lower, str.strip, substring test, ordering *)

UpperLetters ==
    << "A","B","C","D","E","F","G","H","I","J","K","L","M",
       "N","O","P","Q","R","S","T","U","V","W","X","Y","Z" >>

LowerLetters ==
    << "a","b","c","d","e","f","g","h","i","j","k","l","m",
       "n","o","p","q","r","s","t","u","v","w","x","y","z" >>

DigitChars == << "0","1","2","3","4","5","6","7","8","9" >>

\* the characters of the model in code-point order
CodePoints == << " ", "-" >> \o DigitChars \o UpperLetters \o LowerLetters

IndexOf(seq, x) == CHOOSE i \in 1..Len(seq) : seq[i] = x

Ord(ch) == IndexOf(CodePoints, ch)

LowerChar(ch) ==
    IF \E i \in 1..26 : UpperLetters[i] = ch
    THEN LowerLetters[IndexOf(UpperLetters, ch)]
    ELSE ch

\* str.lower()
Lower(s) == [i \in 1..Len(s) |-> LowerChar(s[i])]

\* str.strip(): leading and trailing whitespace removed
RECURSIVE LStrip(_)
LStrip(s) == IF s # << >> /\ Head(s) = " " THEN LStrip(Tail(s)) ELSE s

RECURSIVE RStrip(_)
RStrip(s) ==
    IF s # << >> /\ s[Len(s)] = " " THEN RStrip(SubSeq(s, 1, Len(s) - 1)) ELSE s

Strip(s) == RStrip(LStrip(s))

\* k in s, for strings
Contains(k, s) ==
    \E i \in 0..(Len(s) - Len(k)) : SubSeq(s, i + 1, i + Len(k)) = k

\* any(k in combo for k in keywords)
AnyIn(keywords, combo) ==
    \E j \in 1..Len(keywords) : Contains(keywords[j], combo)

\* s < t, comparing code points from the left
RECURSIVE StrLess(_, _)
StrLess(s, t) ==
    IF t = << >> THEN FALSE
    ELSE IF s = << >> THEN TRUE
    ELSE IF Head(s) # Head(t) THEN Ord(Head(s)) < Ord(Head(t))
    ELSE StrLess(Tail(s), Tail(t))

-----------------------------------------------------------------------------
(* Cells of a table *)

None == [k |-> "None"]

NaN == [k |-> "nan"]

Num(v) == [k |-> "num", v |-> v]

Str(s) == [k |-> "str", s |-> s]

\* pd.isna
isna(x) == x = NaN

NanText == << "n","a","n" >>

\* str(x) of a cell of a text column: NaN or a text
PyStr(x) == IF x = NaN THEN NanText ELSE x.s

-----------------------------------------------------------------------------
(* pd.to_numeric(x, errors="coerce") of one cell *)

IsDigit(ch) == \E i \in 1..10 : DigitChars[i] = ch

IsNumeric(s) ==
    LET body == IF s # << >> /\ Head(s) = "-" THEN Tail(s) ELSE s
    IN  body # << >> /\ \A i \in 1..Len(body) : IsDigit(body[i])

RECURSIVE DigitsValue(_)
DigitsValue(s) ==
    IF s = << >> THEN 0
    ELSE 10 * DigitsValue(SubSeq(s, 1, Len(s) - 1)) + (IndexOf(DigitChars, s[Len(s)]) - 1)

ParseInt(s) == IF Head(s) = "-" THEN 0 - DigitsValue(Tail(s)) ELSE DigitsValue(s)

to_numeric(x) ==
    IF x = None \/ x = NaN THEN NaN
    ELSE IF x.k = "num" THEN x
    ELSE IF IsNumeric(x.s) THEN Num(ParseInt(x.s))
    ELSE NaN

-----------------------------------------------------------------------------
(* compute_decade *)

\* faulty variant: the year rounded to the nearest ten instead of down
FloorDecade_round(year) == ((year + 5) \div 10) * 10

\* np.floor(year / 10.0) * 10 for an integral year: \div rounds down
FloorDecade(year) == (year \div 10) * 10

\* faulty variant: falls back to end_year also when start_year gives a decade out of range
compute_decade_range_fallback(row) ==
    LET InRange(y) == ~isna(y) /\ FloorDecade(y.v) >= MIN_DECADE
                               /\ FloorDecade(y.v) <= MAX_DECADE
        year0 == to_numeric(row[MASTER_START_YEAR_COL])
        year == IF InRange(year0) THEN year0 ELSE to_numeric(row[MASTER_END_YEAR_COL])
    IN  IF InRange(year) THEN Num(FloorDecade(year.v)) ELSE NaN

compute_decade(row) ==
    LET start == row[MASTER_START_YEAR_COL]
        end == row[MASTER_END_YEAR_COL]
        year0 == to_numeric(start)
        year == IF isna(year0) THEN to_numeric(end) ELSE year0
    IN  IF isna(year) THEN NaN
        ELSE LET decade == FloorDecade(year.v)
             IN  IF decade < MIN_DECADE \/ decade > MAX_DECADE
                 THEN NaN
                 ELSE Num(decade)

-----------------------------------------------------------------------------
(* categorize_medium *)

\* the labels of the medium groups and the default of region and country;
\* KW_x: the keywords tested for group x, in the order of the list in the code
Photographs == <<"P","h","o","t","o","g","r","a","p","h","s">>

Prints == <<"P","r","i","n","t","s">>

Drawings == <<"D","r","a","w","i","n","g","s">>

Paintings == <<"P","a","i","n","t","i","n","g","s">>

Sculpture == <<"S","c","u","l","p","t","u","r","e">>

Textiles == <<"T","e","x","t","i","l","e","s">>

DecorativeArts == <<"D","e","c","o","r","a","t","i","v","e"," ","a","r","t","s">>

Other == <<"O","t","h","e","r">>

Unknown == <<"U","n","k","n","o","w","n">>

KW_Photographs ==
    << <<"p","h","o","t","o","g","r","a","p","h">>,
       <<"g","e","l","a","t","i","n"," ","s","i","l","v","e","r">>,
       <<"a","l","b","u","m","e","n"," ","p","r","i","n","t">>,
       <<"p","h","o","t","o"," ">> >>

KW_Prints ==
    << <<"p","r","i","n","t">>,
       <<"e","n","g","r","a","v","i","n","g">>,
       <<"e","t","c","h","i","n","g">>,
       <<"l","i","t","h","o","g","r","a","p","h">>,
       <<"w","o","o","d","c","u","t">>,
       <<"s","c","r","e","e","n","p","r","i","n","t">> >>

KW_Drawings ==
    << <<"d","r","a","w","i","n","g">>,
       <<"g","r","a","p","h","i","t","e">>,
       <<"p","e","n","c","i","l">>,
       <<"p","e","n"," ","a","n","d"," ","i","n","k">>,
       <<"w","a","t","e","r","c","o","l","o","r">>,
       <<"w","a","t","e","r","c","o","l","o","u","r">> >>

KW_Paintings ==
    << <<"p","a","i","n","t","i","n","g">>,
       <<"o","i","l"," ","o","n"," ","c","a","n","v","a","s">>,
       <<"t","e","m","p","e","r","a">>,
       <<"a","c","r","y","l","i","c">> >>

KW_Sculpture ==
    << <<"s","c","u","l","p","t","u","r","e">>,
       <<"b","r","o","n","z","e">>,
       <<"m","a","r","b","l","e">>,
       <<"c","a","r","v","e","d"," ","s","t","o","n","e">> >>

KW_Textiles ==
    << <<"t","e","x","t","i","l","e">>,
       <<"t","a","p","e","s","t","r","y">>,
       <<"s","i","l","k">>,
       <<"c","o","t","t","o","n">>,
       <<"l","i","n","e","n">>,
       <<"w","o","o","l">> >>

KW_DecorativeArts ==
    << <<"c","e","r","a","m","i","c">>,
       <<"p","o","r","c","e","l","a","i","n">>,
       <<"e","a","r","t","h","e","n","w","a","r","e">>,
       <<"s","t","o","n","e","w","a","r","e">>,
       <<"p","o","t","t","e","r","y">>,
       <<"g","l","a","s","s">>,
       <<"f","u","r","n","i","t","u","r","e">>,
       <<"d","e","c","o","r","a","t","i","v","e"," ","a","r","t">> >>

\* str(x or ""): None and "" give "", a missing cell (float nan, truthy) gives "nan"
StrOrEmpty(x) == IF x = None THEN << >> ELSE PyStr(x)

\* faulty variant: Sculpture tested before Prints
categorize_medium_sculpture_first(classification, medium) ==
    LET c == Lower(StrOrEmpty(classification))
        m == Lower(StrOrEmpty(medium))
        combo == c \o << " " >> \o m
    IN  IF AnyIn(KW_Photographs, combo) THEN Photographs
        ELSE IF AnyIn(KW_Sculpture, combo) THEN Sculpture
        ELSE IF AnyIn(KW_Prints, combo) THEN Prints
        ELSE IF AnyIn(KW_Drawings, combo) THEN Drawings
        ELSE IF AnyIn(KW_Paintings, combo) THEN Paintings
        ELSE IF AnyIn(KW_Textiles, combo) THEN Textiles
        ELSE IF AnyIn(KW_DecorativeArts, combo) THEN DecorativeArts
        ELSE Other

categorize_medium(classification, medium) ==
    LET c == Lower(StrOrEmpty(classification))
        m == Lower(StrOrEmpty(medium))
        combo == c \o << " " >> \o m
    IN  IF AnyIn(KW_Photographs, combo) THEN Photographs
        ELSE IF AnyIn(KW_Prints, combo) THEN Prints
        ELSE IF AnyIn(KW_Drawings, combo) THEN Drawings
        ELSE IF AnyIn(KW_Paintings, combo) THEN Paintings
        ELSE IF AnyIn(KW_Sculpture, combo) THEN Sculpture
        ELSE IF AnyIn(KW_Textiles, combo) THEN Textiles
        ELSE IF AnyIn(KW_DecorativeArts, combo) THEN DecorativeArts
        ELSE Other

-----------------------------------------------------------------------------
(* pd.read_csv: the file's text fields become cells *)

Range(f) == {f[x] : x \in DOMAIN f}

\* a column is numeric when every field that is not empty is a number
NumericColumn(rows, col) ==
    \A i \in 1..Len(rows) : rows[i][col] = << >> \/ IsNumeric(rows[i][col])

\* an empty field is read as NaN; the fields of a numeric column as numbers;
\* any other field as its text (the files of the model hold whole numbers and
\* none of read_csv's other spellings of a missing value)
ParseField(rows, col, i) ==
    LET f == rows[i][col]
    IN  IF f = << >> THEN NaN
        ELSE IF NumericColumn(rows, col) THEN Num(ParseInt(f))
        ELSE Str(f)

read_csv(file) ==
    [k |-> "frame",
     columns |-> file.columns,
     rows |-> [i \in 1..Len(file.rows) |->
                  [col \in file.columns |-> ParseField(file.rows, col, i)]]]

-----------------------------------------------------------------------------
(* Region mapping: dropna, groupby(country)[region], value_counts().idxmax() *)

\* flows_df.dropna(subset=[FLOWS_COUNTRY_COL, FLOWS_REGION_COL])
dropna(rows) ==
    SelectSeq(rows, LAMBDA r : ~isna(r[FLOWS_COUNTRY_COL]) /\ ~isna(r[FLOWS_REGION_COL]))

\* s.value_counts() of the regions of one country
value_counts(rows, country, region) ==
    Cardinality({i \in 1..Len(rows) :
                    /\ rows[i][FLOWS_COUNTRY_COL] = country
                    /\ rows[i][FLOWS_REGION_COL] = region})

\* faulty variant: any region of the country, whatever its count
idxmax_any(rows, country) ==
    {rows[i][FLOWS_REGION_COL] : i \in
        {j \in 1..Len(rows) : rows[j][FLOWS_COUNTRY_COL] = country}}

\* the regions idxmax() may return: those of the highest count (the order of
\* equal counts in value_counts() is not fixed by the script)
idxmax(rows, country) ==
    LET regions == {rows[i][FLOWS_REGION_COL] : i \in
                       {j \in 1..Len(rows) : rows[j][FLOWS_COUNTRY_COL] = country}}
    IN  {r \in regions :
            \A r2 \in regions :
                value_counts(rows, country, r2) <= value_counts(rows, country, r)}

\* the dicts country_region.to_dict() may be, keys and values as texts
country_region_dicts(flows_clean) ==
    LET countries == {flows_clean[i][FLOWS_COUNTRY_COL] : i \in 1..Len(flows_clean)}
        keys == {PyStr(c) : c \in countries}
        regions == {PyStr(flows_clean[i][FLOWS_REGION_COL]) : i \in 1..Len(flows_clean)}
    IN  {d \in [keys -> regions] :
            \A c \in countries : Str(d[PyStr(c)]) \in idxmax(flows_clean, c)}

EmptyDict == [c \in {} |-> Unknown]

\* Series.map(dict): NaN for a key the dict lacks
map(key, dict) == IF key \in DOMAIN dict THEN Str(dict[key]) ELSE NaN

\* fillna("Unknown")
fillna(x) == IF isna(x) THEN Str(Unknown) ELSE x

-----------------------------------------------------------------------------
(* Message boxes *)

Box(kind, title, text) == [kind |-> kind, title |-> title, text |-> text]

Notify(box) == notifications' = Append(notifications, box)

-----------------------------------------------------------------------------
(* The files the operator may select *)

RequiredCols == {MASTER_COUNTRY_COL, MASTER_START_YEAR_COL, MASTER_END_YEAR_COL}

MasterCols == RequiredCols \cup {MASTER_CLASS_COL, MASTER_MEDIUM_COL}

FlowsCols == {FLOWS_COUNTRY_COL, FLOWS_REGION_COL}

MasterRow(country, start, end, classification, medium) ==
    (MASTER_COUNTRY_COL :> country) @@ (MASTER_START_YEAR_COL :> start) @@
    (MASTER_END_YEAR_COL :> end) @@ (MASTER_CLASS_COL :> classification) @@
    (MASTER_MEDIUM_COL :> medium)

FlowsRow(country, region) ==
    (FLOWS_COUNTRY_COL :> country) @@ (FLOWS_REGION_COL :> region)

France == <<"F","r","a","n","c","e">>
Japan == <<"J","a","p","a","n">>
Europe == <<"E","u","r","o","p","e">>
Asia == <<"A","s","i","a">>

\* rows of a master file, as text fields: country, start year, end year,
\* classification, medium
MasterRowDomain ==
    { MasterRow(France, <<"1","8","7","5">>, << >>,
                <<"P","a","i","n","t","i","n","g">>,
                <<"o","i","l"," ","o","n"," ","c","a","n","v","a","s">>),
      MasterRow(<<" ">> \o Japan \o <<" ">>, << >>, <<"1","6","3","0">>,
                <<"P","r","i","n","t">>, <<"b","r","o","n","z","e">>),
      MasterRow(<<" "," ">>, <<"c","1","8","7","0">>, <<"2","0","2","5">>,
                << >>, <<"B","r","o","n","z","e">>),
      MasterRow(<< >>, <<"1","6","3","0">>, << >>,
                << >>, <<"p","o","r","c","e","l","a","i","n">>),
      MasterRow(France, <<"1","3","9","0">>, <<"1","8","7","5">>,
                <<"P","h","o","t","o","g","r","a","p","h">>, << >>),
      MasterRow(Japan, << >>, <<"x">>,
                <<"D","r","a","w","i","n","g">>, <<"g","r","a","p","h","i","t","e">>) }

\* the column sets a master file may have: all five, an optional column or
\* both absent, a required column absent
MasterColumnSets ==
    { MasterCols,
      MasterCols \ {MASTER_CLASS_COL},
      MasterCols \ {MASTER_MEDIUM_COL},
      RequiredCols,
      MasterCols \ {MASTER_END_YEAR_COL} }

SeqsUpTo(S, n) == UNION {[1..m -> S] : m \in 0..n}

Restrict(row, cols) == [c \in cols |-> row[c]]

MasterFiles ==
    { [columns |-> cols, rows |-> [i \in 1..Len(rows) |-> Restrict(rows[i], cols)]] :
        cols \in MasterColumnSets, rows \in SeqsUpTo(MasterRowDomain, MaxRows) }

\* the rows a region-lookup file is made of, as text fields
FlowsPool ==
    << FlowsRow(France, Europe),
       FlowsRow(France, Europe),
       FlowsRow(France, Asia),
       FlowsRow(Japan, Asia),
       FlowsRow(France, << >>) >>

\* the rows of FlowsPool at the positions in S, in order
RECURSIVE PoolRows(_)
PoolRows(S) ==
    IF S = {} THEN << >>
    ELSE LET last == CHOOSE i \in S : \A j \in S : j <= i
         IN  Append(PoolRows(S \ {last}), FlowsPool[last])

FlowsRowSeqs == {PoolRows(S) : S \in SUBSET (1..Len(FlowsPool))}

FlowsColumnSets == { FlowsCols, {FLOWS_COUNTRY_COL}, {FLOWS_REGION_COL} }

FlowsFiles ==
    { [columns |-> cols, rows |-> [i \in 1..Len(rows) |-> Restrict(rows[i], cols)]] :
        cols \in FlowsColumnSets, rows \in FlowsRowSeqs }

-----------------------------------------------------------------------------
(* main() *)

MainInit ==
    /\ pc = "step1"
    /\ master_path = ""
    /\ master_file = None
    /\ use_flows = FALSE
    /\ master_df = None
    /\ flows_df = None
    /\ country_to_region = EmptyDict
    /\ df = None
    /\ grouped = None
    /\ out_path = ""
    /\ out_file = None
    /\ writes = 0
    /\ notifications = << >>

Init ==
    /\ MainInit
    /\ fn_args = None
    /\ fn_result = None

\* Step 1: the master file dialog
PickMaster ==
    /\ pc = "step1"
    /\ \E path \in {"", "master.csv"} :
          /\ master_path' = path
          /\ IF path = ""
             THEN /\ notifications' = notifications \o
                        << Box("showinfo", "Step 1", "Select your master objects CSV"),
                           Box("showwarning", "Cancelled", "No master file selected.") >>
                  /\ pc' = "returned"
             ELSE /\ Notify(Box("showinfo", "Step 1", "Select your master objects CSV"))
                  /\ pc' = "step2"
    /\ UNCHANGED << master_file, use_flows, master_df, flows_df, country_to_region, df, grouped,
                    out_path, out_file, writes, fn_args, fn_result >>

\* Step 2: the optional region-lookup file dialog
PickFlows ==
    /\ pc = "step2"
    /\ \E flows_path \in {"", "flows.csv"} : use_flows' = (flows_path # "")
    /\ Notify(Box("showinfo", "Step 2 (optional)", "Select flows_country_to_museum.csv"))
    /\ pc' = "read_master"
    /\ UNCHANGED << master_path, master_file, master_df, flows_df, country_to_region, df, grouped,
                    out_path, out_file, writes, fn_args, fn_result >>

\* pd.read_csv(master_path): the file's table, or an exception
ReadMaster ==
    /\ pc = "read_master"
    /\ \E readable \in BOOLEAN :
          IF readable
          THEN /\ \E file \in MasterFiles :
                      /\ master_file' = file
                      /\ master_df' = read_csv(file)
               /\ pc' = "read_flows"
               /\ UNCHANGED notifications
          ELSE /\ Notify(Box("showerror", "Error", "Could not read master CSV"))
               /\ pc' = "returned"
               /\ UNCHANGED << master_file, master_df >>
    /\ UNCHANGED << master_path, use_flows, flows_df, country_to_region, df, grouped,
                    out_path, out_file, writes, fn_args, fn_result >>

\* pd.read_csv(flows_path) when a lookup file was selected
ReadFlows ==
    /\ pc = "read_flows"
    /\ IF use_flows
       THEN \E readable \in BOOLEAN :
               IF readable
               THEN /\ \E file \in FlowsFiles : flows_df' = read_csv(file)
                    /\ pc' = "check_columns"
                    /\ UNCHANGED notifications
               ELSE /\ Notify(Box("showerror", "Error", "Could not read flows CSV"))
                    /\ pc' = "returned"
                    /\ UNCHANGED flows_df
       ELSE /\ flows_df' = None
            /\ pc' = "check_columns"
            /\ UNCHANGED notifications
    /\ UNCHANGED << master_path, master_file, use_flows, master_df, country_to_region, df, grouped,
                    out_path, out_file, writes, fn_args, fn_result >>

\* Check columns: the three required columns of the master table
CheckColumns ==
    /\ pc = "check_columns"
    /\ LET missing_master == {col \in RequiredCols : col \notin master_df.columns}
       IN  IF missing_master # {}
           THEN /\ Notify(Box("showerror", "Missing columns in master file", "Missing"))
                /\ pc' = "returned"
           ELSE /\ pc' = "region_mapping"
                /\ UNCHANGED notifications
    /\ UNCHANGED << master_path, master_file, use_flows, master_df, flows_df, country_to_region, df,
                    grouped, out_path, out_file, writes, fn_args, fn_result >>

\* faulty variant: a lookup table without its columns ends the run
RegionMapping_abort_on_missing ==
    /\ pc = "region_mapping"
    /\ IF use_flows
       THEN IF FLOWS_COUNTRY_COL \notin flows_df.columns
               \/ FLOWS_REGION_COL \notin flows_df.columns
            THEN /\ Notify(Box("showwarning", "Flows columns missing",
                               "Region mapping will be skipped."))
                 /\ country_to_region' = EmptyDict
                 /\ pc' = "returned"
            ELSE /\ \E d \in country_region_dicts(dropna(flows_df.rows)) :
                        country_to_region' = d
                 /\ UNCHANGED notifications
                 /\ pc' = "prepare"
       ELSE /\ country_to_region' = EmptyDict
            /\ UNCHANGED notifications
            /\ pc' = "prepare"
    /\ UNCHANGED << master_path, master_file, use_flows, master_df, flows_df, df, grouped,
                    out_path, out_file, writes, fn_args, fn_result >>

\* Region mapping
RegionMapping ==
    /\ pc = "region_mapping"
    /\ IF use_flows
       THEN IF FLOWS_COUNTRY_COL \notin flows_df.columns
               \/ FLOWS_REGION_COL \notin flows_df.columns
            THEN /\ Notify(Box("showwarning", "Flows columns missing",
                               "Region mapping will be skipped."))
                 /\ country_to_region' = EmptyDict
            ELSE /\ \E d \in country_region_dicts(dropna(flows_df.rows)) :
                        country_to_region' = d
                 /\ UNCHANGED notifications
       ELSE /\ country_to_region' = EmptyDict
            /\ UNCHANGED notifications
    /\ pc' = "prepare"
    /\ UNCHANGED << master_path, master_file, use_flows, master_df, flows_df, df, grouped,
                    out_path, out_file, writes, fn_args, fn_result >>

\* a frame built by the script: its rows in order
Frame(rows) == [k |-> "frame", rows |-> rows]

\* df[MASTER_COUNTRY_COL].astype(str).str.strip()
stripped_country(cell) == Str(Strip(PyStr(cell)))

\* df["region"]: map through the dict when it is not empty, then fillna
region_of(country, dict) ==
    fillna(IF DOMAIN dict # {} THEN map(country.s, dict) ELSE Str(Unknown))

\* df["country"]: the stripped country, "Unknown" where it equals ""
country_of(country) == IF country.s = << >> THEN Str(Unknown) ELSE country

\* one row of df before the decade filter, carrying its index label
prepared_row(frame, dict, i) ==
    LET subset_cols == RequiredCols \cup
                       (frame.columns \cap {MASTER_CLASS_COL, MASTER_MEDIUM_COL})
        stripped == stripped_country(frame.rows[i][MASTER_COUNTRY_COL])
        cells == [c \in subset_cols |->
                     IF c = MASTER_COUNTRY_COL THEN stripped ELSE frame.rows[i][c]]
    IN  [index |-> i,
         cells |-> cells,
         region |-> region_of(stripped, dict),
         country |-> country_of(stripped),
         decade |-> compute_decade(cells)]

\* df[df["decade"].notna()], then decade.astype(int)
decade_filter(rows) ==
    LET kept == SelectSeq(rows, LAMBDA r : ~isna(r.decade))
    IN  [i \in 1..Len(kept) |-> [kept[i] EXCEPT !.decade = kept[i].decade.v]]

\* Prepare master data, compute region, country and decade, drop the rows
\* without a decade
PrepareMaster ==
    /\ pc = "prepare"
    /\ LET all == [i \in 1..Len(master_df.rows) |->
                      prepared_row(master_df, country_to_region, i)]
           kept == decade_filter(all)
       IN  /\ df' = Frame(kept)
           /\ IF kept = << >>
              THEN /\ Notify(Box("showwarning", "No data",
                                 "No rows remain after computing decades within the valid range."))
                   /\ pc' = "returned"
              ELSE /\ pc' = "medium_grouping"
                   /\ UNCHANGED notifications
    /\ UNCHANGED << master_path, master_file, use_flows, master_df, flows_df, country_to_region,
                    grouped, out_path, out_file, writes, fn_args, fn_result >>

\* the column of master_df when it exists, the str "" otherwise
optional_column(frame, col) == IF col \in frame.columns THEN "Series" ELSE "str"

\* medium_group of the df row labelled i: the values of master_df at label i
\* (Series.reindex(df.index) aligns on the index)
medium_group_at(frame, i) ==
    categorize_medium(frame.rows[i][MASTER_CLASS_COL], frame.rows[i][MASTER_MEDIUM_COL])

\* faulty variant: the columns of master_df zipped by position, without reindex
medium_groups_positional(frame, rows) ==
    [j \in 1..Len(rows) |-> medium_group_at(frame, j)]

\* the list assigned to df["medium_group"], one value per row of df in order
medium_groups(frame, rows) ==
    [j \in 1..Len(rows) |-> medium_group_at(frame, rows[j].index)]

\* Medium grouping: "".reindex raises AttributeError when a column is absent
MediumGrouping ==
    /\ pc = "medium_grouping"
    /\ IF optional_column(master_df, MASTER_CLASS_COL) = "str"
          \/ optional_column(master_df, MASTER_MEDIUM_COL) = "str"
       THEN /\ pc' = "raised"
            /\ UNCHANGED df
       ELSE /\ LET groups == medium_groups(master_df, df.rows)
               IN  df' = Frame([j \in 1..Len(df.rows) |->
                                   [index |-> df.rows[j].index,
                                    cells |-> df.rows[j].cells,
                                    region |-> df.rows[j].region,
                                    country |-> df.rows[j].country,
                                    decade |-> df.rows[j].decade,
                                    medium_group |-> groups[j]]])
            /\ pc' = "aggregate"
    /\ UNCHANGED << master_path, master_file, use_flows, master_df, flows_df, country_to_region,
                    grouped, out_path, out_file, writes, notifications,
                    fn_args, fn_result >>

\* the group key of a row
group_key(r) == << r.region, r.country, r.decade, r.medium_group >>

\* order of two cells of a key column: texts by code point, NaN last
CellLess(a, b) ==
    IF isna(a) THEN FALSE
    ELSE IF isna(b) THEN TRUE
    ELSE StrLess(a.s, b.s)

\* order of the group keys in the result of groupby
KeyLess(a, b) ==
    IF a[1] # b[1] THEN CellLess(a[1], b[1])
    ELSE IF a[2] # b[2] THEN CellLess(a[2], b[2])
    ELSE IF a[3] # b[3] THEN a[3] < b[3]
    ELSE StrLess(a[4], b[4])

\* faulty variant: one output row per record, never merged
groupby_size_per_row(rows) ==
    [n \in 1..Len(rows) |->
        [region |-> rows[n].region,
         country |-> rows[n].country,
         decade |-> rows[n].decade,
         medium_group |-> rows[n].medium_group,
         n_objects |-> 1]]

\* groupby([...], dropna=False).size().reset_index(name="n_objects")
groupby_size(rows) ==
    LET keys == {group_key(rows[j]) : j \in 1..Len(rows)}
        rank(key) == 1 + Cardinality({k2 \in keys : KeyLess(k2, key)})
        nth(n) == CHOOSE key \in keys : rank(key) = n
    IN  [n \in 1..Cardinality(keys) |->
            [region |-> nth(n)[1],
             country |-> nth(n)[2],
             decade |-> nth(n)[3],
             medium_group |-> nth(n)[4],
             n_objects |-> Cardinality({j \in 1..Len(rows) : group_key(rows[j]) = nth(n)})]]

\* Aggregate
Aggregate ==
    /\ pc = "aggregate"
    /\ LET result == groupby_size(df.rows)
       IN  /\ grouped' = Frame(result)
           /\ IF result = << >>
              THEN /\ Notify(Box("showwarning", "No data", "No rows produced after grouping."))
                   /\ pc' = "returned"
              ELSE /\ pc' = "save"
                   /\ UNCHANGED notifications
    /\ UNCHANGED << master_path, master_file, use_flows, master_df, flows_df, country_to_region, df,
                    out_path, out_file, writes, fn_args, fn_result >>

\* faulty variant: a declined save dialog does not end the run
Save_ignores_cancel ==
    /\ pc = "save"
    /\ \E path \in {"", "counts_by_country_decade_medium.csv"} : out_path' = path
    /\ Notify(Box("showinfo", "Step 3", "Choose where to save"))
    /\ pc' = "write"
    /\ UNCHANGED << master_path, master_file, use_flows, master_df, flows_df,
                    country_to_region, df, grouped, out_file, writes, fn_args, fn_result >>

\* Step 3: the save dialog
Save ==
    /\ pc = "save"
    /\ \E path \in {"", "counts_by_country_decade_medium.csv"} :
          /\ out_path' = path
          /\ IF path = ""
             THEN /\ notifications' = notifications \o
                        << Box("showinfo", "Step 3", "Choose where to save"),
                           Box("showwarning", "Cancelled", "No output path selected.") >>
                  /\ pc' = "returned"
             ELSE /\ Notify(Box("showinfo", "Step 3", "Choose where to save"))
                  /\ pc' = "write"
    /\ UNCHANGED << master_path, master_file, use_flows, master_df, flows_df, country_to_region, df,
                    grouped, out_file, writes, fn_args, fn_result >>

\* grouped.to_csv(out_path): the file is written, or an exception
Write ==
    /\ pc = "write"
    /\ writes' = writes + 1
    /\ \E written \in BOOLEAN :
          IF written
          THEN /\ out_file' = grouped
               /\ Notify(Box("showinfo", "Done", "Wrote rows"))
               /\ pc' = "done"
          ELSE /\ Notify(Box("showerror", "Error", "Could not write CSV"))
               /\ pc' = "returned"
               /\ UNCHANGED out_file
    /\ UNCHANGED << master_path, master_file, use_flows, master_df, flows_df, country_to_region, df,
                    grouped, out_path, fn_args, fn_result >>

Next ==
    \/ PickMaster
    \/ PickFlows
    \/ ReadMaster
    \/ ReadFlows
    \/ CheckColumns
    \/ RegionMapping
    \/ PrepareMaster
    \/ MediumGrouping
    \/ Aggregate
    \/ Save
    \/ Write

Spec == Init /\ [][Next]_vars

-----------------------------------------------------------------------------
(* compute_decade called on one row *)

\* the probed years reach this far below 0 and above MAX_DECADE + 10
YearMargin == 30

ProbeYears == (0 - YearMargin)..(MAX_DECADE + 10 + YearMargin)

YearCellsFew ==
    { NaN, Str(<<"c","1","8","7","0">>), Str(<<"1","8","7","5">>),
      Num(1395), Num(1875), Num(2031) }

YearRow(start, end) ==
    (MASTER_START_YEAR_COL :> start) @@ (MASTER_END_YEAR_COL :> end)

DecadeProbeRows ==
    {YearRow(Num(y), e) : y \in ProbeYears, e \in YearCellsFew}
    \cup {YearRow(s, Num(y)) : s \in YearCellsFew, y \in ProbeYears}
    \cup {YearRow(s, e) : s \in YearCellsFew, e \in YearCellsFew}

InitDecade ==
    /\ MainInit
    /\ fn_args \in {[f |-> "compute_decade", row |-> r] : r \in DecadeProbeRows}
    /\ fn_result = None

CallComputeDecade ==
    /\ fn_args # None
    /\ fn_args.f = "compute_decade"
    /\ fn_result = None
    /\ fn_result' = compute_decade(fn_args.row)
    /\ UNCHANGED << main_vars, fn_args >>

NextDecade == CallComputeDecade

SpecDecade == InitDecade /\ [][NextDecade]_vars

-----------------------------------------------------------------------------
(* categorize_medium called on one pair of values *)

ProbeTexts ==
    Range(KW_Photographs) \cup Range(KW_Prints) \cup Range(KW_Drawings)
    \cup Range(KW_Paintings) \cup Range(KW_Sculpture) \cup Range(KW_Textiles)
    \cup Range(KW_DecorativeArts)
    \cup { <<"P","r","i","n","t">>, <<"B","r","o","n","z","e">>,
           <<"P","h","o","t","o">>, <<"p","h","o","t","o">>,
           <<"o","i","l"," ","o","n">>, <<"c","a","n","v","a","s">>,
           <<"p","e","n"," ","a","n","d">>, <<"i","n","k">>,
           <<"x","y","z">>, <<"S","I","L","K">>,
           <<"b","r","o","n","z","e"," ","s","c","u","l","p","t","u","r","e"," ",
             "p","r","i","n","t">>,
           <<"o","i","l"," ","o","n"," ","c","a","n","v","a","s"," ",
             "b","r","o","n","z","e"," ","f","r","a","m","e">> }

MediumProbeValues == {None, NaN, Str(<< >>)} \cup {Str(t) : t \in ProbeTexts}

InitMedium ==
    /\ MainInit
    /\ fn_args \in {[f |-> "categorize_medium", classification |-> c, medium |-> m] :
                       c \in MediumProbeValues, m \in MediumProbeValues}
    /\ fn_result = None

CallCategorizeMedium ==
    /\ fn_args # None
    /\ fn_args.f = "categorize_medium"
    /\ fn_result = None
    /\ fn_result' = Str(categorize_medium(fn_args.classification, fn_args.medium))
    /\ UNCHANGED << main_vars, fn_args >>

NextMedium == CallCategorizeMedium

SpecMedium == InitMedium /\ [][NextMedium]_vars

-----------------------------------------------------------------------------
(* Properties *)

Last(seq) == seq[Len(seq)]

Shown(title) == \E n \in 1..Len(notifications) : notifications[n].title = title

RECURSIVE SumObjects(_)
SumObjects(rows) == IF rows = << >> THEN 0 ELSE Head(rows).n_objects + SumObjects(Tail(rows))

\* the multiple of ten d with d <= y < d + 10
DecadeOfYear(y) == CHOOSE d \in (y - 9)..y : d % 10 = 0

\* rows of df carry a medium group once Medium grouping has run
HasMediumGroup == df # None /\ df.rows # << >> /\ "medium_group" \in DOMAIN df.rows[1]

\* C1: main() calls to_csv at most once, and only after both reads succeeded,
\* the required columns were present, a record survived the decade filter and
\* an output path was chosen; a run that ends on a read failure, a missing
\* required column, an empty result or a declined dialog has attempted no
\* write and shown no "Done" box.
C1_WriteOnlyAfterAllChecks ==
    /\ writes <= 1
    /\ writes >= 1 =>
          /\ master_df # None
          /\ use_flows => flows_df # None
          /\ RequiredCols \subseteq master_df.columns
          /\ df # None
          /\ Len(df.rows) >= 1
          /\ out_path # ""
    /\ Shown("Done") => writes = 1 /\ out_file = grouped /\ pc = "done"
    /\ out_file # None => Shown("Done")
    /\ (pc = "returned" /\ Last(notifications).text # "Could not write CSV") =>
          /\ Last(notifications).title \in
                {"Cancelled", "Error", "Missing columns in master file", "No data"}
          /\ writes = 0
          /\ out_file = None
          /\ ~Shown("Done")

C1_Witness == pc = "done" /\ writes = 1 /\ out_file = grouped /\ use_flows

\* C2: the aggregate holds exactly one row per 4-tuple (region, country,
\* decade, medium_group) of the surviving records, n_objects is the number of
\* surviving records with that tuple, no two rows share a tuple and the
\* n_objects add up to the number of surviving records.
C2_OneRowPerTupleWithItsCount ==
    grouped # None =>
        LET out == grouped.rows
            key(r) == << r.region, r.country, r.decade, r.medium_group >>
            members(k) == {j \in 1..Len(df.rows) : key(df.rows[j]) = k}
        IN  /\ \A j \in 1..Len(df.rows) :
                  Cardinality({n \in 1..Len(out) : key(out[n]) = key(df.rows[j])}) = 1
            /\ \A n \in 1..Len(out) :
                  /\ members(key(out[n])) # {}
                  /\ out[n].n_objects = Cardinality(members(key(out[n])))
            /\ \A n, m \in 1..Len(out) : key(out[n]) = key(out[m]) => n = m
            /\ SumObjects(out) = Len(df.rows)

C2_Witness ==
    /\ grouped # None
    /\ Len(df.rows) = 2
    /\ Len(grouped.rows) = 1
    /\ grouped.rows[1].n_objects = 2

\* C3: a master table without classification_std or medium_std does not make
\* the run fail: the absent field reaches categorize_medium as empty text and
\* the run goes on to aggregation.
C3_OptionalColumnsMayBeAbsent ==
    (master_df # None
     /\ ~({MASTER_CLASS_COL, MASTER_MEDIUM_COL} \subseteq master_df.columns)) =>
        /\ pc # "raised"
        /\ HasMediumGroup =>
              \A j \in 1..Len(df.rows) :
                  LET src == master_df.rows[df.rows[j].index]
                      value(col) == IF col \in master_df.columns THEN src[col]
                                    ELSE Str(<< >>)
                  IN  df.rows[j].medium_group =
                          categorize_medium(value(MASTER_CLASS_COL), value(MASTER_MEDIUM_COL))

C5_YearSelectionAndDrop ==
    (df # None) =>
        LET raw == master_file.rows
            startOk(i) == IsNumeric(raw[i][MASTER_START_YEAR_COL])
            endOk(i) == IsNumeric(raw[i][MASTER_END_YEAR_COL])
            hasYear(i) == startOk(i) \/ endOk(i)
            year(i) == IF startOk(i) THEN ParseInt(raw[i][MASTER_START_YEAR_COL])
                       ELSE ParseInt(raw[i][MASTER_END_YEAR_COL])
            defined(i) == /\ hasYear(i)
                          /\ DecadeOfYear(year(i)) >= 1400
                          /\ DecadeOfYear(year(i)) <= 2020
            kept(i) == \E j \in 1..Len(df.rows) : df.rows[j].index = i
        IN  /\ \A i \in 1..Len(raw) : kept(i) <=> defined(i)
            /\ \A j \in 1..Len(df.rows) :
                  /\ df.rows[j].index \in 1..Len(raw)
                  /\ df.rows[j].decade = DecadeOfYear(year(df.rows[j].index))
                  /\ \A j2 \in 1..Len(df.rows) :
                        df.rows[j].index = df.rows[j2].index => j = j2
            /\ grouped # None =>
                  SumObjects(grouped.rows) = Cardinality({i \in 1..Len(raw) : defined(i)})

C5_Witness ==
    /\ grouped # None
    /\ Len(master_file.rows) = 2
    /\ Len(df.rows) = 1
    /\ df.rows[1].index = 2
    /\ master_file.rows[1][MASTER_START_YEAR_COL] = <<"1","3","9","0">>
    /\ master_file.rows[1][MASTER_END_YEAR_COL] = <<"1","8","7","5">>
    /\ master_file.rows[2][MASTER_START_YEAR_COL] = << >>
    /\ df.rows[1].decade = 1630

\* the text of a value as the classifier is meant to see it: empty when absent
TextOf(x) == IF x = None \/ x = NaN THEN << >> ELSE x.s

\* the categories in their order of priority, each with its keywords
CategoryOrder ==
    << << Photographs, KW_Photographs >>,
       << Prints, KW_Prints >>,
       << Drawings, KW_Drawings >>,
       << Paintings, KW_Paintings >>,
       << Sculpture, KW_Sculpture >>,
       << Textiles, KW_Textiles >>,
       << DecorativeArts, KW_DecorativeArts >> >>

\* C6: categorize_medium gives, for every pair of values, the first category
\* in the order Photographs, Prints, Drawings, Paintings, Sculpture, Textiles,
\* Decorative arts one of whose keywords is a substring of
\* lower(classification) + " " + lower(medium), and "Other" exactly when no
\* keyword of any category is one. With no Photographs keyword in the text,
\* "print" together with "bronze" gives Prints; "bronze" with no keyword of an
\* earlier category gives Sculpture.
C6_FirstMatchingCategory ==
    (fn_args # None /\ fn_args.f = "categorize_medium" /\ fn_result # None) =>
        LET text == Lower(TextOf(fn_args.classification)) \o << " " >>
                    \o Lower(TextOf(fn_args.medium))
            matches(i) == AnyIn(CategoryOrder[i][2], text)
            hits == {i \in 1..Len(CategoryOrder) : matches(i)}
            first == CHOOSE i \in hits : \A i2 \in hits : i <= i2
            print == <<"p","r","i","n","t">>
            bronze == <<"b","r","o","n","z","e">>
        IN  /\ hits # {} => fn_result = Str(CategoryOrder[first][1])
            /\ fn_result = Str(Other) <=> hits = {}
            /\ (Contains(print, text) /\ Contains(bronze, text) /\ ~matches(1)) =>
                  fn_result = Str(Prints)
            /\ (Contains(bronze, text) /\ \A i \in 1..4 : ~matches(i)) =>
                  fn_result = Str(Sculpture)

C6_Witness ==
    /\ fn_args # None
    /\ fn_args.f = "categorize_medium"
    /\ fn_args.classification = Str(<<"B","r","o","n","z","e">>)
    /\ fn_args.medium = Str(<<"s","c","r","e","e","n","p","r","i","n","t">>)
    /\ fn_result = Str(Prints)

\* a lookup table was read and lacks one of its two columns
LookupLacksColumns ==
    use_flows /\ flows_df # None /\ ~(FlowsCols \subseteq flows_df.columns)

\* Region mapping has run
RegionMappingDone ==
    /\ master_df # None
    /\ RequiredCols \subseteq master_df.columns
    /\ pc \notin {"read_flows", "check_columns", "region_mapping"}

\* C7: a lookup table read without its origin_country or region column gives
\* a warning and does not end the run: the run goes on as without a lookup
\* table, and every record has region "Unknown".
C7_LookupWithoutColumnsIsSkipped ==
    (LookupLacksColumns /\ RegionMappingDone) =>
        /\ Shown("Flows columns missing")
        /\ pc = "returned" => Last(notifications).title # "Flows columns missing"
        /\ country_to_region = EmptyDict
        /\ df # None =>
              /\ \A j \in 1..Len(df.rows) : df.rows[j].region = Str(Unknown)
              /\ LET plain == decade_filter([i \in 1..Len(master_df.rows) |->
                                               prepared_row(master_df, EmptyDict, i)])
                 IN  \A j \in 1..Len(df.rows) :
                        /\ df.rows[j].index = plain[j].index
                        /\ df.rows[j].country = plain[j].country
                        /\ df.rows[j].decade = plain[j].decade
        /\ grouped # None =>
              \A n \in 1..Len(grouped.rows) : grouped.rows[n].region = Str(Unknown)

C7_Witness ==
    /\ LookupLacksColumns
    /\ pc = "done"
    /\ Shown("Flows columns missing")
    /\ Len(flows_df.rows) >= 1
    /\ \A n \in 1..Len(out_file.rows) : out_file.rows[n].region = Str(Unknown)

\* C8: the region of a record is a function of its country: a region of the
\* highest count among the lookup rows of that country that have a region,
\* when there is such a row; "Unknown" when there is none or no lookup table
\* is in use; never null.
C8_RegionIsModeOrUnknown ==
    (df # None) =>
        LET usable == use_flows /\ flows_df # None /\ FlowsCols \subseteq flows_df.columns
            lookup == IF usable THEN flows_df.rows ELSE << >>
            rowsOf(c) == {i \in 1..Len(lookup) :
                             /\ lookup[i][FLOWS_COUNTRY_COL] = Str(c)
                             /\ lookup[i][FLOWS_REGION_COL] # NaN}
            count(c, r) == Cardinality({i \in rowsOf(c) : lookup[i][FLOWS_REGION_COL] = r})
        IN  \A j \in 1..Len(df.rows) :
               LET c == df.rows[j].cells[MASTER_COUNTRY_COL].s
                   region == df.rows[j].region
               IN  /\ region # NaN
                   /\ region.k = "str"
                   /\ IF rowsOf(c) # {}
                      THEN /\ count(c, region) >= 1
                           /\ \A i \in rowsOf(c) :
                                 count(c, lookup[i][FLOWS_REGION_COL]) <= count(c, region)
                      ELSE region = Str(Unknown)
                   /\ \A j2 \in 1..Len(df.rows) :
                         df.rows[j2].cells[MASTER_COUNTRY_COL].s = c =>
                             df.rows[j2].region = region

C8_Witness ==
    /\ grouped # None
    /\ use_flows
    /\ Len(flows_df.rows) = 3
    /\ flows_df.rows[1] = FlowsRow(Str(France), Str(Europe))
    /\ flows_df.rows[2] = FlowsRow(Str(France), Str(Europe))
    /\ flows_df.rows[3] = FlowsRow(Str(France), Str(Asia))
    /\ Len(df.rows) = 2
    /\ df.rows[1].country = Str(France)
    /\ df.rows[1].region = Str(Europe)
    /\ df.rows[2].country = Str(Japan)
    /\ df.rows[2].region = Str(Unknown)

\* C9: the country of a record that reaches aggregation is never empty: a
\* record whose country in the input is the empty string, as it is or once
\* stripped, has country "Unknown", and any other record has its stripped
\* input country.
C9_EmptyCountryIsUnknown ==
    (df # None) =>
        \A j \in 1..Len(df.rows) :
            LET input == master_file.rows[df.rows[j].index][MASTER_COUNTRY_COL]
                country == df.rows[j].country
            IN  /\ country # NaN
                /\ country.s # << >>
                /\ IF Strip(input) = << >>
                   THEN country = Str(Unknown)
                   ELSE country = Str(Strip(input))

\* C10: the medium group of a surviving record is categorize_medium of that
\* record's own classification and medium in the master table, whichever
\* records the decade filter dropped.
C10_MediumGroupOfOwnRow ==
    HasMediumGroup =>
        \A j \in 1..Len(df.rows) :
            LET own == master_df.rows[df.rows[j].index]
            IN  /\ df.rows[j].cells[MASTER_START_YEAR_COL] = own[MASTER_START_YEAR_COL]
                /\ df.rows[j].cells[MASTER_END_YEAR_COL] = own[MASTER_END_YEAR_COL]
                /\ df.rows[j].medium_group =
                      categorize_medium(own[MASTER_CLASS_COL], own[MASTER_MEDIUM_COL])

C10_Witness ==
    /\ HasMediumGroup
    /\ Len(master_df.rows) = 2
    /\ Len(df.rows) = 1
    /\ df.rows[1].index = 2
    /\ df.rows[1].medium_group = Prints
    /\ categorize_medium(master_df.rows[1][MASTER_CLASS_COL],
                         master_df.rows[1][MASTER_MEDIUM_COL]) = Photographs

====
